---- MODULE Spec2Model ----
(***************************************************************************)
(* Model of the word-embedding core of                                     *)
(* assignment/classifier/3-Embeddings_SVD_Viz.ipynb:                       *)
(*   cooccurrence_matrix(token_ids, V, K)  (notebook lines 180-195)        *)
(*   PPMI(C)                               (notebook lines 280-310)        *)
(* and of the two cells that compose them (lines 218-230, 416-421).        *)
(*                                                                         *)
(* A dense V x V matrix is a function on Idx(V) \X Idx(V).  Only stored    *)
(* values that differ from zero are observable in a count matrix           *)
(* (C.nonzero() filters on the value), so C is kept dense; the matrix      *)
(* PPMI returns is kept sparse (a function on its stored positions),       *)
(* because eliminate_zeros() changes only which positions are stored.      *)
(*                                                                         *)
(* Counts are float32 in the code; every count of the model is far below   *)
(* 2^24, where float32 is exact, so counts are integers here.              *)
(***************************************************************************)
EXTENDS Integers, Sequences, FiniteSets, TLC

\* ------------------------------------------------------------- bounds
MaxLen == 4      \* longest token stream drawn
MaxV == 3        \* largest vocabulary size drawn for a token stream
MaxK == 3        \* largest window drawn
MaxDim == 3      \* largest matrix handed to PPMI directly
MaxMass == 4
MaxLines == 2        \* lines of a file handed to make_release.sh     \* largest total count of a matrix handed to PPMI directly

VARIABLES
    entry,      \* which function the caller entered: "cooccurrence_matrix" or "PPMI"
    pc,         \* position in the code
    token_ids,  \* argument of cooccurrence_matrix
    V,          \* vocabulary size (the matrix is V x V)
    K,          \* window argument
    k,          \* loop variable of "for k in range(1, K+1)"
    C,          \* the accumulator, later the argument of PPMI
    err,        \* the exception that ended the call, or "none"
    Z, Zr, Zc,  \* PPMI: total, row sums, column sums
    ii, jj,     \* PPMI: C.nonzero()
    Cij,        \* PPMI: the values at (ii, jj)
    ret,        \* PPMI: the returned sparse matrix
    retObj,     \* PPMI: the object ret names: "none", "new" (built by the
                \* constructor on line 307) or "C" (the caller's matrix)
    Wv,         \* SVD: for each row of Wv, what is known of its norm
    rpc,        \* make_release.sh: position in the script
    nameGiven,  \* make_release.sh: an assignment name was passed
    jqInstalled,\* make_release.sh: `which jq` finds jq
    dev,        \* make_release.sh: the tracked files of <name>-dev, name -> lines
    release,    \* make_release.sh: the files of the release directory
    files,      \* make_release.sh: the files a loop has still to visit
    scrubbed    \* make_release.sh: the notebooks jq has rewritten

coreVars == <<entry, pc, token_ids, V, K, k, C, err, Z, Zr, Zc, ii, jj, Cij, ret, retObj, Wv>>
relVars == <<rpc, nameGiven, jqInstalled, dev, release, files, scrubbed>>
vars == <<coreVars, relVars>>

Idx(v) == 0..(v - 1)
Pos(v) == Idx(v) \X Idx(v)

\* ------------------------------------------------- python / numpy / scipy

\* Python's normalisation of a slice bound x for a sequence of length n.
NormIndex(x, n) ==
    IF x < 0 THEN (IF x + n < 0 THEN 0 ELSE x + n)
    ELSE (IF x > n THEN n ELSE x)

\* s[:stop]
SliceTo(s, stop) == SubSeq(s, 1, NormIndex(stop, Len(s)))

\* s[start:]
SliceFrom(s, start) == SubSeq(s, NormIndex(start, Len(s)) + 1, Len(s))

\* np.ones_like(i)
OnesLike(i) == [p \in 1..Len(i) |-> 1]

\* scipy.sparse.csc_matrix((V,V)): nothing stored
ZeroMatrix(v) == [q \in Pos(v) |-> 0]

\* The checks of scipy's coo constructor: equal lengths, and, when anything
\* is given, every index within the shape (negative indices are refused too).
COOInvalid(data, row, col, v) ==
    \/ Len(row) # Len(col)
    \/ Len(data) # Len(row)
    \/ \E p \in 1..Len(row) : row[p] < 0 \/ row[p] >= v
    \/ \E p \in 1..Len(col) : col[p] < 0 \/ col[p] >= v

RECURSIVE SumMatching(_, _, _, _, _, _)
SumMatching(data, row, col, r, c, p) ==
    IF p = 0 THEN 0
    ELSE (IF row[p] = r /\ col[p] = c THEN data[p] ELSE 0)
         + SumMatching(data, row, col, r, c, p - 1)

\* csc_matrix((data, (row, col)), shape=(v,v)): duplicates are summed
FromCOODupLast(data, row, col, v) ==
    [q \in Pos(v) |->
        IF \E p \in 1..Len(row) : row[p] = q[1] /\ col[p] = q[2] THEN 1 ELSE 0]

FromCOO(data, row, col, v) ==
    [q \in Pos(v) |-> SumMatching(data, row, col, q[1], q[2], Len(row))]

\* M.T
Transpose(M, v) == [q \in Pos(v) |-> M[q[2], q[1]]]

\* A + B
MatAdd(A, B, v) == [q \in Pos(v) |-> A[q] + B[q]]

\* ------------------------------------------------ cooccurrence_matrix

\* i = token_ids[:-k]
CurrentWordsLenMinusK(t, kk) == SliceTo(t, Len(t) - kk)

CurrentWords(t, kk) == SliceTo(t, 0 - kk)

\* j = token_ids[k:]
AheadWords(t, kk) == SliceFrom(t, kk)

\* Ck_plus = csc_matrix((np.ones_like(i), (i, j)), shape=C.shape)
Ck_plus(t, v, kk) ==
    FromCOO(OnesLike(CurrentWords(t, kk)), CurrentWords(t, kk), AheadWords(t, kk), v)

\* Ck_minus = Ck_plus.T
Ck_minusNoTranspose(Cp, v) == Cp

Ck_minus(Cp, v) == Transpose(Cp, v)

\* C += Ck_plus + Ck_minus
AccumulateForwardOnly(Cacc, Cp, Cm, v) == MatAdd(Cacc, Cp, v)

Accumulate(Cacc, Cp, Cm, v) == MatAdd(Cacc, MatAdd(Cp, Cm, v), v)

\* the constructor of Ck_plus raises
CkRaises(t, v, kk) ==
    COOInvalid(OnesLike(CurrentWords(t, kk)), CurrentWords(t, kk), AheadWords(t, kk), v)

\* ------------------------------------------------------------ the toy cell
\* toy_token_ids: "<s> nlp class is awesome </s> <s> nlp class is fun </s>",
\* with the ids of vocabulary.Vocabulary: <s>, </s>, <unk>, then the words.
ToyV == 8
ToyS == 0
ToyEndS == 1
ToyNlp == 3
ToyClass == 4
ToyIs == 5
ToyAwesome == 6
ToyFun == 7
toy_token_ids ==
    <<ToyS, ToyNlp, ToyClass, ToyIs, ToyAwesome, ToyEndS,
      ToyS, ToyNlp, ToyClass, ToyIs, ToyFun, ToyEndS>>
ToyK == 1

\* ------------------------------------------------------------------ PPMI

RECURSIVE SumOver(_, _, _)
\* sum of f[x] for x in lo..hi
SumOver(f, lo, hi) == IF hi < lo THEN 0 ELSE f[hi] + SumOver(f, lo, hi - 1)

\* C.sum(axis=1): sum each row (along columns)
RowSums(M, v) == [r \in Idx(v) |-> SumOver([c \in Idx(v) |-> M[r, c]], 0, v - 1)]

\* C.sum(axis=0): sum each column (along rows)
ColSums(M, v) == [c \in Idx(v) |-> SumOver([r \in Idx(v) |-> M[r, c]], 0, v - 1)]

\* C.sum()
TotalSum(M, v) == SumOver(RowSums(M, v), 0, v - 1)

RECURSIVE NonzeroFrom(_, _, _)
\* The nonzero positions of M from linear position p on, in the order
\* C.nonzero() gives them for a csc matrix (sorted by row).
NonzeroFrom(M, v, p) ==
    IF p >= v * v THEN << >>
    ELSE LET q == <<p \div v, p % v>>
         IN  (IF M[q] # 0 THEN <<q>> ELSE << >>) \o NonzeroFrom(M, v, p + 1)

\* ii, jj = C.nonzero(), as one sequence of (row, column) pairs
NonzeroEveryPosition(M, v) == [p \in 1..(v * v) |-> <<(p - 1) \div v, (p - 1) % v>>]

Nonzero(M, v) == NonzeroFrom(M, v, 0)

RECURSIVE GCD(_, _)
GCD(a, b) == IF b = 0 THEN a ELSE GCD(b, a % b)

\* Floating-point values, as far as PPMI can tell them apart: "log" is
\* log(p/q) for the positive rational p/q in lowest terms (log is injective,
\* and log(p/q) is 0, positive or negative as p = q, p > q or p < q; the
\* float64 quotient of two integers below 2^52 is 1.0 exactly when they are
\* equal, and above or below 1.0 as the exact quotient is); "inf", "-inf" and
\* "nan" are what numpy yields for a zero denominator or a zero argument.
LogOf(p, q) == [kind |-> "log", p |-> p \div GCD(p, q), q |-> q \div GCD(p, q)]
PosInf == [kind |-> "inf", p |-> 0, q |-> 0]
NegInf == [kind |-> "-inf", p |-> 0, q |-> 0]
NaN == [kind |-> "nan", p |-> 0, q |-> 0]
FloatZero == LogOf(1, 1)

\* np.log(num / den) for num, den >= 0
LogRatio(num, den) ==
    IF den = 0 THEN (IF num = 0 THEN NaN ELSE PosInf)
    ELSE IF num = 0 THEN NegInf
    ELSE LogOf(num, den)

\* pmi = np.log(Cij * Z / (Zr[ii] * Zc[jj])), one element
PmiWrongMarginal(c, z, zr, zc, q) == LogRatio(c * z, zr[q[1]] * zc[q[1]])

Pmi(c, z, zr, zc, q) == LogRatio(c * z, zr[q[1]] * zc[q[2]])

\* np.maximum(0, pmi), one element (nan propagates)
Maximum0Identity(x) == x

Maximum0(x) ==
    IF x.kind = "log" THEN (IF x.p < x.q THEN FloatZero ELSE x)
    ELSE IF x.kind = "-inf" THEN FloatZero
    ELSE x

IsZero(x) == x.kind = "log" /\ x.p = x.q

\* scipy.sparse.csc_matrix((ppmi, (ii,jj)), shape=C.shape): the positions of
\* C.nonzero() are distinct, so no duplicates are summed
Pack(vals, nzs, v) ==
    [shape |-> v,
     data |-> [q \in {nzs[p] : p \in 1..Len(nzs)} |->
                 vals[CHOOSE p \in 1..Len(nzs) : nzs[p] = q]]]

\* ret.eliminate_zeros()
EliminateZerosSkipped(m) == m

EliminateZeros(m) ==
    [shape |-> m.shape,
     data |-> [q \in {x \in DOMAIN m.data : ~IsZero(m.data[x])} |-> m.data[q]]]

\* M.toarray()[q]: a position that is not stored reads as zero
At(m, q) == IF q \in DOMAIN m.data THEN m.data[q] ELSE FloatZero

\* ------------------------------------------------------------ the calls

NotSet == << >>

TokenIds(v) == (0 - 1)..v
TokenSeqs(v) == UNION {[1..n -> TokenIds(v)] : n \in 0..MaxLen}

\* A call of cooccurrence_matrix: any stream (ids out of range included), any
\* window from -1 on; or the call of the toy cell.
InitCooccurrence ==
    /\ entry = "cooccurrence_matrix"
    /\ pc = "start"
    /\ \/ /\ V \in 1..MaxV
          /\ token_ids \in TokenSeqs(V)
          /\ K \in (0 - 1)..MaxK
       \/ /\ V = ToyV
          /\ token_ids = toy_token_ids
          /\ K = ToyK
    /\ k = 0
    /\ C = NotSet

RECURSIVE CountVectors(_, _)
\* the sequences of len non-negative counts of total at most m
CountVectors(len, m) ==
    IF len = 0 THEN {<< >>}
    ELSE UNION {{Append(s, c) : s \in CountVectors(len - 1, m - c)} : c \in 0..m}

\* the v x v matrices of non-negative counts of total mass at most m
CountMatrices(v, m) ==
    {[q \in Pos(v) |-> s[q[1] * v + q[2] + 1]] : s \in CountVectors(v * v, m)}

\* A call of PPMI on any matrix of non-negative counts.
InitPPMI ==
    /\ entry = "PPMI"
    /\ pc = "ppmi"
    /\ V \in 1..MaxDim
    /\ C \in CountMatrices(V, MaxMass)
    /\ token_ids = << >>
    /\ K = 0
    /\ k = 0

\* make_release.sh is not running
ReleaseIdle ==
    /\ rpc = "idle"
    /\ nameGiven = FALSE /\ jqInstalled = FALSE
    /\ dev = NotSet /\ release = NotSet /\ files = NotSet /\ scrubbed = NotSet

Init ==
    /\ InitCooccurrence \/ InitPPMI
    /\ Wv = NotSet
    /\ ReleaseIdle
    /\ err = "none"
    /\ Z = NotSet /\ Zr = NotSet /\ Zc = NotSet
    /\ ii = NotSet /\ jj = NotSet /\ Cij = NotSet
    /\ ret = NotSet
    /\ retObj = "none"

ppmiVars == <<Z, Zr, Zc, ii, jj, Cij, ret, retObj>>

\* C = scipy.sparse.csc_matrix((V,V), dtype=np.float32)
Alloc ==
    /\ pc = "start"
    /\ C' = ZeroMatrix(V)
    /\ k' = 1
    /\ pc' = "loop"
    /\ UNCHANGED <<entry, token_ids, V, K, err, ppmiVars>>
    /\ UNCHANGED <<Wv, relVars>>

\* one iteration of "for k in range(1, K+1)"; the constructor of Ck_plus
\* raises ValueError on an index outside the shape
LoopBody ==
    /\ pc = "loop"
    /\ k <= K
    /\ IF CkRaises(token_ids, V, k)
       THEN /\ pc' = "raised"
            /\ err' = "ValueError"
            /\ UNCHANGED <<C, k>>
       ELSE /\ C' = Accumulate(C, Ck_plus(token_ids, V, k),
                               Ck_minus(Ck_plus(token_ids, V, k), V), V)
            /\ k' = k + 1
            /\ UNCHANGED <<pc, err>>
    /\ UNCHANGED <<entry, token_ids, V, K, ppmiVars>>
    /\ UNCHANGED <<Wv, relVars>>

\* the loop is exhausted: return C
Return ==
    /\ pc = "loop"
    /\ k > K
    /\ pc' = "returned"
    /\ UNCHANGED <<entry, token_ids, V, K, k, C, err, ppmiVars>>
    /\ UNCHANGED <<Wv, relVars>>

\* C_ppmi = PPMI(C)
CallPPMI ==
    /\ pc = "returned"
    /\ pc' = "ppmi"
    /\ UNCHANGED <<entry, token_ids, V, K, k, C, err, ppmiVars>>
    /\ UNCHANGED <<Wv, relVars>>

\* Z, Zc, Zr
PPMISums ==
    /\ pc = "ppmi"
    /\ Z' = TotalSum(C, V)
    /\ Zc' = ColSums(C, V)
    /\ Zr' = RowSums(C, V)
    /\ pc' = "ppmi_nonzero"
    /\ UNCHANGED <<entry, token_ids, V, K, k, C, err, ii, jj, Cij, ret, retObj>>
    /\ UNCHANGED <<Wv, relVars>>

\* ii, jj = C.nonzero(); Cij = np.array(C[ii,jj], dtype=np.float64).flatten()
\* With index arrays that are not empty, C[ii,jj] is a 1 x nnz np.matrix of the
\* values.  With empty index arrays scipy's fancy indexing returns a 1 x 0
\* sparse matrix instead, and what np.array(..., dtype=np.float64) makes of a
\* sparse matrix is decided by the installed numpy and scipy, not by this
\* code: it is either refused (TypeError) or read as no values.
PPMINonzero ==
    /\ pc = "ppmi_nonzero"
    /\ LET nzs == Nonzero(C, V)
       IN  /\ ii' = [p \in 1..Len(nzs) |-> nzs[p][1]]
           /\ jj' = [p \in 1..Len(nzs) |-> nzs[p][2]]
           /\ \/ /\ Cij' = [p \in 1..Len(nzs) |-> C[nzs[p]]]
                 /\ pc' = "ppmi_pmi"
                 /\ err' = err
              \/ /\ Len(nzs) = 0
                 /\ Cij' = Cij
                 /\ pc' = "ppmi_raised"
                 /\ err' = "TypeError"
    /\ UNCHANGED <<entry, token_ids, V, K, k, C, Z, Zr, Zc, ret, retObj>>
    /\ UNCHANGED <<Wv, relVars>>

\* pmi = ..., ppmi = np.maximum(0, pmi), one value for each position of (ii, jj)
PpmiValues ==
    [p \in 1..Len(ii) |-> Maximum0(Pmi(Cij[p], Z, Zr, Zc, <<ii[p], jj[p]>>))]

\* pmi, ppmi, ret, ret.eliminate_zeros(), return ret: the constructor builds
\* a new matrix and eliminate_zeros() works in place on that one
PPMIPackInPlace ==
    /\ pc = "ppmi_pmi"
    /\ ret' = EliminateZeros(Pack(PpmiValues, [p \in 1..Len(ii) |-> <<ii[p], jj[p]>>], V))
    /\ retObj' = "C"
    /\ C' = [q \in Pos(V) |-> IF q \in DOMAIN ret'.data THEN C[q] ELSE 0]
    /\ pc' = "ppmi_returned"
    /\ UNCHANGED <<entry, token_ids, V, K, k, err, Z, Zr, Zc, ii, jj, Cij>>
    /\ UNCHANGED <<Wv, relVars>>

PPMIPack ==
    /\ pc = "ppmi_pmi"
    /\ ret' = EliminateZeros(Pack(PpmiValues, [p \in 1..Len(ii) |-> <<ii[p], jj[p]>>], V))
    /\ retObj' = "new"
    /\ pc' = "ppmi_returned"
    /\ UNCHANGED <<entry, token_ids, V, K, k, C, err, Z, Zr, Zc, ii, jj, Cij>>
    /\ UNCHANGED <<Wv, relVars>>

\* ------------------------------------------------------------------- SVD

\* every element of the row is exactly zero
RowIsZero(m, v, r) == \A c \in Idx(v) : IsZero(At(m, <<r, c>>))

\* Wv = transformer.fit_transform(X): row r of Wv is row r of X projected on
\* the d components kept, so a zero row of X gives a zero row of Wv, and any
\* other row may or may not keep a nonzero projection (that depends on d and
\* on the components, which the model leaves open).
FitTransformNorms(m, v) ==
    {w \in [Idx(v) -> {"zero", "positive"}] :
        \A r \in Idx(v) : RowIsZero(m, v, r) => w[r] = "zero"}

\* Wv / np.linalg.norm(Wv, axis=1).reshape([-1,1]), one row: numpy divides
\* 0.0 by 0.0 to nan (with a warning, not an exception)
NormalizeRow(norm) == IF norm = "zero" THEN "nan" ELSE "unit"

\* Wv, _ = SVD(C_ppmi, d=d): transformer.fit_transform(X)
SVDFit ==
    /\ entry = "cooccurrence_matrix"
    /\ pc = "ppmi_returned"
    /\ Wv' \in FitTransformNorms(ret, V)
    /\ pc' = "svd_fit"
    /\ UNCHANGED <<entry, token_ids, V, K, k, C, err, ppmiVars, relVars>>

\* Wv = Wv / np.linalg.norm(...); return Wv, transformer.explained_variance_
SVDNormalize ==
    /\ pc = "svd_fit"
    /\ Wv' = [r \in Idx(V) |-> NormalizeRow(Wv[r])]
    /\ pc' = "svd_returned"
    /\ UNCHANGED <<entry, token_ids, V, K, k, C, err, ppmiVars, relVars>>

Next ==
    \/ Alloc
    \/ LoopBody
    \/ Return
    \/ CallPPMI
    \/ PPMISums
    \/ PPMINonzero
    \/ PPMIPack
    \/ SVDFit
    \/ SVDNormalize

Spec == Init /\ [][Next]_vars

\* ===================================================================
\* Properties
\* ===================================================================

RECURSIVE SetSum(_, _)
SetSum(f, S) ==
    IF S = {} THEN 0
    ELSE LET x == CHOOSE y \in S : TRUE IN f[x] + SetSum(f, S \ {x})

Min(a, b) == IF a < b THEN a ELSE b

\* every id of the stream lies in [0, V)
ValidIds == \A p \in 1..Len(token_ids) : token_ids[p] \in Idx(V)

\* the number of positions l with t[l] = a and t[l+d] = b
PairCount(t, a, b, d) ==
    Cardinality({l \in 1..(Len(t) - d) : t[l] = a /\ t[l + d] = b})

\* occurrences of a and b at an offset of 1..m, in either order
WindowCount(t, a, b, m) ==
    SetSum([d \in 1..m |-> PairCount(t, a, b, d) + PairCount(t, b, a, d)], 1..m)

InCooccurrence == entry = "cooccurrence_matrix" /\ pc \in {"loop", "returned"}
CooccurrenceReturned == entry = "cooccurrence_matrix" /\ pc = "returned"
IsToyCall == token_ids = toy_token_ids /\ V = ToyV /\ K = ToyK

\* C1: for a stream of valid ids and a window K >= 1 the accumulator is
\* symmetric after every iteration of the offset loop, and so is the matrix
\* returned.
C1_Symmetric ==
    (InCooccurrence /\ ValidIds /\ K >= 1)
        => \A a \in Idx(V), b \in Idx(V) : C[a, b] = C[b, a]

\* a returned matrix with a pair that occurs in one order only
C1_Witness ==
    /\ CooccurrenceReturned /\ ValidIds /\ K >= 1
    /\ \E a \in Idx(V), b \in Idx(V) :
          /\ a # b
          /\ C[a, b] > 0
          /\ \A d \in 1..K : PairCount(token_ids, b, a, d) = 0

\* C2: for a stream of valid ids and K >= 1 the returned C[a,b] is the number
\* of (position, offset) occurrences of a followed by b at an offset of 1..K
\* plus the number of those of b followed by a; on the toy corpus with K = 1
\* the count between "nlp" and "class" is 2 in both directions.
C2_Counts ==
    (CooccurrenceReturned /\ ValidIds /\ K >= 1)
        => /\ \A a \in Idx(V), b \in Idx(V) :
                 C[a, b] = WindowCount(token_ids, a, b, K)
           /\ IsToyCall => (C[ToyNlp, ToyClass] = 2 /\ C[ToyClass, ToyNlp] = 2)

\* the toy call has returned, with the pair ("nlp", "class") counted
C2_Witness ==
    /\ CooccurrenceReturned /\ IsToyCall
    /\ C[ToyNlp, ToyClass] = 2

\* C5: a stream of valid ids shorter than K+1 never makes the call raise;
\* the matrix is V x V; the offsets k >= n add nothing (after any number of
\* iterations the accumulator holds the counts of the offsets below n only);
\* and a stream of at most one token gives the all-zero matrix.
C5_ShortStream ==
    (entry = "cooccurrence_matrix" /\ ValidIds /\ K >= 1 /\ Len(token_ids) < K + 1)
        => /\ pc # "raised"
           /\ pc \in {"loop", "returned"} =>
                 /\ DOMAIN C = Pos(V)
                 /\ \A a \in Idx(V), b \in Idx(V) :
                       C[a, b] = WindowCount(token_ids, a, b,
                                             Min(k - 1, Len(token_ids) - 1))
                 /\ (Len(token_ids) <= 1) => \A q \in Pos(V) : C[q] = 0

\* a returned call on a stream of two tokens or more in which an offset
\* beyond the stream's length was processed
C5_Witness ==
    /\ CooccurrenceReturned /\ ValidIds
    /\ Len(token_ids) >= 2
    /\ K > Len(token_ids)
    /\ \E q \in Pos(V) : C[q] > 0

\* C6: every diagonal entry of the returned matrix is twice the number of
\* (position, offset) occurrences of the token next to itself within the
\* window: even, non-negative, and nonzero whenever there is one.
C6_Diagonal ==
    (CooccurrenceReturned /\ ValidIds /\ K >= 1)
        => \A a \in Idx(V) :
              LET self == SetSum([d \in 1..K |-> PairCount(token_ids, a, a, d)], 1..K)
              IN  /\ C[a, a] = 2 * self
                  /\ C[a, a] % 2 = 0
                  /\ C[a, a] >= 0
                  /\ self > 0 => C[a, a] # 0

\* a returned matrix with a self-pair seen at two offsets
C6_Witness ==
    /\ CooccurrenceReturned /\ ValidIds /\ K >= 2
    /\ \E a \in Idx(V) :
          /\ PairCount(token_ids, a, a, 1) > 0
          /\ PairCount(token_ids, a, a, 2) > 0
          /\ C[a, a] >= 4

\* C3 (as claimed): a stream with an id outside [0, V) and K >= 1 never
\* makes cooccurrence_matrix return a matrix.
C3_BadIdNeverReturns ==
    (entry = "cooccurrence_matrix" /\ ~ValidIds /\ K >= 1) => pc # "returned"

\* What the code does give: the ids of a stream of two tokens or more all
\* pass through the constructor of Ck_plus at k = 1, which refuses a bad one.
BadIdInLongStreamNeverReturns ==
    (entry = "cooccurrence_matrix" /\ ~ValidIds /\ K >= 1 /\ Len(token_ids) >= 2)
        => pc \in {"start", "loop", "raised"} /\ (pc = "loop" => k = 1)

\* C4 (as claimed): a call with a window K <= 0 never returns a matrix.
C4_NonPositiveWindowNeverReturns ==
    (entry = "cooccurrence_matrix" /\ K <= 0) => pc # "returned"

\* What the code does give for K <= 0: the loop body never runs and the
\* all-zero matrix is returned, whatever the stream holds.
NonPositiveWindowGivesZeros ==
    (entry = "cooccurrence_matrix" /\ K <= 0)
        => /\ pc # "raised"
           /\ pc \in {"loop", "returned"} => C = ZeroMatrix(V)

InPPMI == pc \in {"ppmi", "ppmi_nonzero", "ppmi_pmi", "ppmi_returned", "ppmi_raised"}
PPMIReturned == pc = "ppmi_returned"
NonNegativeCounts == \A q \in Pos(V) : C[q] >= 0
SymmetricCounts == \A a \in Idx(V), b \in Idx(V) : C[a, b] = C[b, a]

\* x >= 0 as a float (nan is not)
NonNegative(x) == (x.kind = "log" /\ x.p >= x.q) \/ x.kind = "inf"

\* the marginals, summed apart from the code's
MassAll == SetSum(C, Pos(V))
MassRow(a) == SetSum([b \in Idx(V) |-> C[a, b]], Idx(V))
MassCol(b) == SetSum([a \in Idx(V) |-> C[a, b]], Idx(V))

\* positions whose count exceeds what independence of row and column gives
Attracted == {q \in Pos(V) : C[q] # 0 /\ C[q] * MassAll > MassRow(q[1]) * MassCol(q[2])}

\* C7: every entry of the matrix PPMI returns for a matrix of non-negative
\* counts is >= 0.
C7_NonNegative ==
    (PPMIReturned /\ NonNegativeCounts) => \A q \in Pos(V) : NonNegative(At(ret, q))

\* PPMI has returned for a matrix with a pair rarer than independence gives
C7_Witness ==
    /\ PPMIReturned /\ NonNegativeCounts
    /\ \E q \in Pos(V) : C[q] # 0 /\ C[q] * MassAll < MassRow(q[1]) * MassCol(q[2])

\* C8: the nonzero entries of PPMI(C) are exactly the positions with
\* c # 0 and c * Z > Z_row[i] * Z_col[j]; every other position, those that
\* are zero in C among them, is zero in the result and not stored in it.
C8_ExactSupport ==
    (PPMIReturned /\ NonNegativeCounts)
        => /\ {q \in Pos(V) : ~IsZero(At(ret, q))} = Attracted
           /\ DOMAIN ret.data = Attracted
           /\ \A q \in Pos(V) :
                 C[q] = 0 => (IsZero(At(ret, q)) /\ q \notin DOMAIN ret.data)

\* PPMI has returned for a matrix with a pair above independence (kept), a
\* pair exactly at independence (dropped) and a pair never seen
C8_Witness ==
    /\ PPMIReturned /\ NonNegativeCounts
    /\ Attracted # {}
    /\ \E q \in Pos(V) : C[q] # 0 /\ C[q] * MassAll = MassRow(q[1]) * MassCol(q[2])
    /\ \E q \in Pos(V) : C[q] = 0

\* C9 (as claimed): PPMI of an all-zero matrix does not end in an error.
C9_AllZeroNeverRaises ==
    (InPPMI /\ C = ZeroMatrix(V)) => pc # "ppmi_raised"

\* What holds of every build: no division is ever evaluated for an all-zero
\* matrix, and if the call returns, nothing is stored in the result.
AllZeroReturnsEmptyIfAtAll ==
    (InPPMI /\ C = ZeroMatrix(V))
        => /\ err \in {"none", "TypeError"}
           /\ pc \in {"ppmi_pmi", "ppmi_returned"} => Len(ii) = 0
           /\ PPMIReturned => DOMAIN ret.data = {}

\* C10: for a symmetric count matrix the row marginal equals the column
\* marginal index for index, and PPMI(C) is symmetric.
C10_SymmetricPPMI ==
    (InPPMI /\ SymmetricCounts /\ NonNegativeCounts)
        => /\ pc \in {"ppmi_nonzero", "ppmi_pmi", "ppmi_returned"} =>
                 \A a \in Idx(V) : Zr[a] = Zc[a]
           /\ PPMIReturned =>
                 \A a \in Idx(V), b \in Idx(V) : At(ret, <<a, b>>) = At(ret, <<b, a>>)

\* PPMI has returned for a symmetric matrix in which two words of different
\* marginals attract each other
C10_Witness ==
    /\ PPMIReturned /\ SymmetricCounts /\ NonNegativeCounts
    /\ \E a \in Idx(V), b \in Idx(V) :
          /\ Zr[a] # Zr[b]
          /\ ~IsZero(At(ret, <<a, b>>))

\* rows a and b of the count matrix are equal
SameCountRow(a, b) == \A j \in Idx(V) : C[a, j] = C[b, j]

\* C11: two ids whose rows of C are identical get identical rows of PPMI(C);
\* on the toy corpus the rows of C for "awesome" and "fun" are identical, and
\* so are their rows of PPMI(C).
C11_SameRows ==
    /\ (PPMIReturned /\ NonNegativeCounts)
          => \A a \in Idx(V), b \in Idx(V) :
                SameCountRow(a, b)
                    => \A j \in Idx(V) : At(ret, <<a, j>>) = At(ret, <<b, j>>)
    /\ (IsToyCall /\ entry = "cooccurrence_matrix" /\ (pc = "returned" \/ InPPMI))
          => SameCountRow(ToyAwesome, ToyFun)
    /\ (IsToyCall /\ entry = "cooccurrence_matrix" /\ PPMIReturned)
          => \A j \in Idx(V) : At(ret, <<ToyAwesome, j>>) = At(ret, <<ToyFun, j>>)

\* PPMI has returned for the toy corpus, with something stored in the rows
\* of "awesome" and "fun"
C11_Witness ==
    /\ IsToyCall /\ entry = "cooccurrence_matrix" /\ PPMIReturned
    /\ \E j \in Idx(V) : ~IsZero(At(ret, <<ToyAwesome, j>>))
    /\ \E j \in Idx(V) : ~IsZero(At(ret, <<ToyFun, j>>))

\* C15: for non-negative counts every position C.nonzero() gives has a
\* positive count, a positive row marginal, a positive column marginal and
\* a positive total, so every quotient is a finite positive number: no
\* division by zero, and neither -inf nor nan, occurs in PPMI or its result.
C15_FiniteRatios ==
    (pc \in {"ppmi_pmi", "ppmi_returned"} /\ NonNegativeCounts)
        => /\ \A p \in 1..Len(ii) :
                 /\ Cij[p] > 0
                 /\ Zr[ii[p]] > 0
                 /\ Zc[jj[p]] > 0
                 /\ Z > 0
                 /\ Pmi(Cij[p], Z, Zr, Zc, <<ii[p], jj[p]>>).kind = "log"
           /\ PPMIReturned => \A q \in DOMAIN ret.data : ret.data[q].kind = "log"

\* PPMI has returned for a matrix with a zero row marginal and a zero column
\* marginal next to positions that were evaluated
C15_Witness ==
    /\ PPMIReturned /\ NonNegativeCounts
    /\ Len(ii) > 0
    /\ \E a \in Idx(V) : Zr[a] = 0
    /\ \E b \in Idx(V) : Zc[b] = 0

\* pairs a stream of n tokens has at offset d
PairsAt(n, d) == IF n - d > 0 THEN n - d ELSE 0

\* twice the pairs at the offsets 1..m
ExpectedMass(n, m) == 2 * SetSum([d \in 1..m |-> PairsAt(n, d)], 1..m)

\* after the iterations 1..k-1 the accumulator's mass is fixed by n alone
C16_MassInv ==
    (InCooccurrence /\ ValidIds /\ K >= 1)
        => SetSum(C, Pos(V)) = ExpectedMass(Len(token_ids), k - 1)

\* an iteration adds 2 * max(0, n - k) and lowers no entry
C16_MassStep ==
    (InCooccurrence /\ ValidIds /\ K >= 1 /\ pc = "loop" /\ k' = k + 1)
        => /\ SetSum(C', Pos(V)) = SetSum(C, Pos(V)) + 2 * PairsAt(Len(token_ids), k)
           /\ \A q \in Pos(V) : C'[q] >= C[q]

\* C16: for a stream of n valid ids and K >= 1 the mass of the returned
\* matrix is 2 * (sum over k in 1..K of max(0, n - k)), whatever the ids are;
\* iteration k adds exactly 2 * max(0, n - k), and no entry decreases from
\* one window to the next larger one.
C16_Mass == []C16_MassInv /\ [][C16_MassStep]_vars

\* a returned call whose last offsets lie beyond the stream: the mass grew
\* at the first offsets only
C16_Witness ==
    /\ CooccurrenceReturned /\ ValidIds
    /\ Len(token_ids) = 3 /\ K = 3
    /\ SetSum(C, Pos(V)) = 6
    /\ \E a \in Idx(V), b \in Idx(V) : a # b /\ C[a, b] > 0

\* no step writes token_ids, and no step of PPMI (or of the caller handing C
\* over) writes C
C13_FrameStep ==
    /\ token_ids' = token_ids
    /\ (pc = "returned" \/ InPPMI) => C' = C

\* what PPMI returns is the matrix its constructor built, not the caller's
C13_NewObject == PPMIReturned => retObj = "new"

\* C13: PPMI and cooccurrence_matrix leave their inputs as they were: C has
\* the same entries after PPMI(C) as before (dropping zeros touches only the
\* returned matrix, a new object), and token_ids is unchanged.
C13_Pure == [][C13_FrameStep]_vars /\ []C13_NewObject

\* the whole chain has run on a stream and PPMI dropped a counted pair from
\* its result
C13_Witness ==
    /\ entry = "cooccurrence_matrix" /\ PPMIReturned
    /\ Len(token_ids) > 0
    /\ retObj = "new"
    /\ \E q \in Pos(V) : C[q] # 0 /\ q \notin DOMAIN ret.data

\* C12 (as claimed): SVD never returns a row of nan: a row of zero norm is
\* left as the zero vector, or the call fails.
C12_NoNaNRow ==
    pc = "svd_returned" => \A r \in Idx(V) : Wv[r] # "nan"

\* What the code does give: a returned row is nan exactly when its norm was
\* zero, and every id with an all-zero PPMI row has such a row.
ZeroNormRowsBecomeNaN ==
    pc = "svd_returned"
        => \A r \in Idx(V) : RowIsZero(ret, V, r) => Wv[r] = "nan"

\* ------------------------------------------------------- make_release.sh

\* A line is a sequence of tokens: code text, the marker, or a character of
\* the tail a notebook's JSON puts after the marker (quote, comma, blank).
Text == "x"
Marker == "#--SOLUTION--"
TailChar == "\","
TailTokens == {TailChar}

PlainLine == <<Text>>
SolutionLine == <<Text, Marker>>
NotebookSolutionLine == <<Text, Marker, TailChar>>
MarkerInsideLine == <<Text, Marker, Text>>
Lines == {PlainLine, SolutionLine, NotebookSolutionLine, MarkerInsideLine}

RECURSIVE Contents(_)
Contents(n) ==
    IF n = 0 THEN {<< >>}
    ELSE LET shorter == Contents(n - 1)
         IN  shorter \cup {Append(c, l) : c \in {d \in shorter : Len(d) = n - 1},
                                          l \in Lines}

\* the pattern with "$" after the tail, which the script does not have
SedAddressAnchored(line) ==
    \E i \in DOMAIN line :
        /\ line[i] = Marker
        /\ \A t \in (i + 1)..Len(line) : line[t] \in TailTokens

\* the sed address /.*#--SOLUTION--[",\s]*/ : anything, the marker, any
\* number of tail characters; nothing anchors the end of the match
SedAddress(line) ==
    \E i \in DOMAIN line : \E j \in i..Len(line) :
        /\ line[i] = Marker
        /\ \A t \in (i + 1)..j : line[t] \in TailTokens

\* sed '/.../d': the lines the address does not match, in their order
SedDelete(content) == SelectSeq(content, LAMBDA line : ~SedAddress(line))

\* file names, as the pieces the patterns look at
HwPy == <<"hw", ".py">>
HwNotebook == <<"hw", ".ipynb">>
HwSolution == <<"hw", "-solution", ".py">>
SavedModel == <<"model", ".npy">>
Readme == <<"README", ".md">>
CustomScript == <<"custom_release", ".sh">>
StaleFile == <<"old", ".py">>

Last(name) == name[Len(name)]
\* patterns=( "\\.pyc$" "\\.npy$" ".*-solution.*" )
MatchesDeletePattern(name) ==
    \/ Last(name) = ".pyc"
    \/ Last(name) = ".npy"
    \/ \E i \in DOMAIN name : name[i] = "-solution"
\* grep -P ".*py(nb)?$"
MatchesPy(name) == Last(name) \in {".py", ".npy", ".ipynb"}
\* grep -P ".*ipynb$"
MatchesIpynb(name) == Last(name) = ".ipynb"

NoFiles == [name \in {} |-> << >>]
Restrict(f, S) == [name \in S |-> f[name]]

\* the tracked files of <name>-dev the runs start from
TrackedSets ==
    { {HwPy, HwNotebook},
      {HwPy, HwNotebook, HwSolution, SavedModel, Readme, CustomScript},
      {HwPy, Readme},
      {HwNotebook},
      {} }
DevDirs ==
    UNION { { [name \in S |-> IF name = HwPy THEN py
                              ELSE IF name = HwNotebook THEN nb
                              ELSE IF name = HwSolution THEN <<SolutionLine>>
                              ELSE <<PlainLine>>] :
                py \in Contents(MaxLines), nb \in Contents(MaxLines) }
            : S \in TrackedSets }

InitRelease ==
    /\ entry = "make_release.sh"
    /\ pc = "idle"
    /\ token_ids = << >> /\ V = 0 /\ K = 0 /\ k = 0 /\ C = NotSet
    /\ err = "none"
    /\ Z = NotSet /\ Zr = NotSet /\ Zc = NotSet
    /\ ii = NotSet /\ jj = NotSet /\ Cij = NotSet
    /\ ret = NotSet /\ retObj = "none" /\ Wv = NotSet
    /\ rpc = "start"
    /\ nameGiven \in BOOLEAN
    /\ jqInstalled \in BOOLEAN
    /\ dev \in DevDirs
    /\ release \in {NoFiles, [name \in {StaleFile} |-> <<SolutionLine>>]}
    /\ files = {}
    /\ scrubbed = {}

Exit1 ==
    /\ rpc' = "exit1"
    /\ UNCHANGED <<nameGiven, jqInstalled, dev, release, files, scrubbed>>

\* if [ -z $ASSIGNMENT_NAME ] ... exit 1; if [ -z `which jq` ] ... exit 1
RelCheckArgs ==
    /\ rpc = "start"
    /\ IF nameGiven /\ jqInstalled
       THEN /\ rpc' = "prepare"
            /\ UNCHANGED <<nameGiven, jqInstalled, dev, release, files, scrubbed>>
       ELSE Exit1
    /\ UNCHANGED coreVars

\* rm -rf "${RELEASE_DIR}"; mkdir -p "${RELEASE_DIR}"; git ls-tree
RelPrepare ==
    /\ rpc = "prepare"
    /\ release' = NoFiles
    /\ files' = DOMAIN dev
    /\ rpc' = "copy"
    /\ UNCHANGED <<nameGiven, jqInstalled, dev, scrubbed>>
    /\ UNCHANGED coreVars

\* for fname in files: cp --parents -d -t RELEASE_DIR fname. With nothing
\* tracked the array holds one empty name, cp fails and set -e ends the run.
RelCopy ==
    /\ rpc = "copy"
    /\ IF files = {}
       THEN Exit1
       ELSE /\ release' = Restrict(dev, files)
            /\ files' = {}
            /\ rpc' = "delete"
            /\ UNCHANGED <<nameGiven, jqInstalled, dev, scrubbed>>
    /\ UNCHANGED coreVars

\* for pattern in patterns: find | grep -P pattern; rm -v each non-empty name
RelDelete ==
    /\ rpc = "delete"
    /\ release' = Restrict(release, {name \in DOMAIN release : ~MatchesDeletePattern(name)})
    /\ rpc' = "list_clean"
    /\ UNCHANGED <<nameGiven, jqInstalled, dev, files, scrubbed>>
    /\ UNCHANGED coreVars

\* readarray -t files <<< find | grep -P ".*py(nb)?$". With no match the
\* array holds one empty name: sed writes ".clean", mv to "" fails, set -e.
RelListClean ==
    /\ rpc = "list_clean"
    /\ LET found == {name \in DOMAIN release : MatchesPy(name)}
       IN  IF found = {}
           THEN Exit1
           ELSE /\ files' = found
                /\ rpc' = "clean"
                /\ UNCHANGED <<nameGiven, jqInstalled, dev, release, scrubbed>>
    /\ UNCHANGED coreVars

\* cat fname | sed '/.../d' > fname.clean; mv fname.clean fname
RelCleanFile ==
    /\ rpc = "clean"
    /\ \E fname \in files :
        /\ release' = [release EXCEPT ![fname] = SedDelete(release[fname])]
        /\ files' = files \ {fname}
        /\ rpc' = IF files = {fname} THEN "list_scrub" ELSE "clean"
    /\ UNCHANGED <<nameGiven, jqInstalled, dev, scrubbed>>
    /\ UNCHANGED coreVars

\* readarray -t files <<< find | grep -P ".*ipynb$". With no notebook the
\* array holds one empty name: jq reads nothing, mv to "" fails, set -e.
RelListScrub ==
    /\ rpc = "list_scrub"
    /\ LET found == {name \in DOMAIN release : MatchesIpynb(name)}
       IN  IF found = {}
           THEN Exit1
           ELSE /\ files' = found
                /\ rpc' = "scrub"
                /\ UNCHANGED <<nameGiven, jqInstalled, dev, release, scrubbed>>
    /\ UNCHANGED coreVars

\* cat fname | jq 'del(.cells[].outputs[]?)' > fname.clean; mv. jq writes the
\* notebook anew, or rejects what sed left of the JSON and set -e ends the run.
RelScrubFile ==
    /\ rpc = "scrub"
    /\ \/ \E fname \in files :
            /\ scrubbed' = scrubbed \cup {fname}
            /\ files' = files \ {fname}
            /\ rpc' = IF files = {fname} THEN "custom" ELSE "scrub"
            /\ UNCHANGED <<nameGiven, jqInstalled, dev, release>>
       \/ Exit1
    /\ UNCHANGED coreVars

\* if [ -e custom_release.sh ]: bash it, rm it; then ls, git add, git diff
RelCustom ==
    /\ rpc = "custom"
    /\ release' = Restrict(release, DOMAIN release \ {CustomScript})
    /\ rpc' = "done"
    /\ UNCHANGED <<nameGiven, jqInstalled, dev, files, scrubbed>>
    /\ UNCHANGED coreVars

NextRelease ==
    \/ RelCheckArgs
    \/ RelPrepare
    \/ RelCopy
    \/ RelDelete
    \/ RelListClean
    \/ RelCleanFile
    \/ RelListScrub
    \/ RelScrubFile
    \/ RelCustom

SpecRelease == InitRelease /\ [][NextRelease]_vars

\* the stripping loop is over for every file
Stripped == rpc \in {"list_scrub", "scrub", "custom", "done"}
\* a line ending with the marker (in a notebook, with the marker followed by
\* nothing but the JSON tail)
EndsWithMarker(line) == SedAddressAnchored(line)
WithoutLinesEndingWithMarker(content) ==
    SelectSeq(content, LAMBDA line : ~EndsWithMarker(line))
PyOrNotebook(name) == Last(name) \in {".py", ".ipynb"}

\* C14 (as claimed): once the lines are stripped, every .py and .ipynb file of
\* the release directory (until jq rewrites it) is its dev copy without the
\* lines ending with the marker, every other line kept in order.
C14_OnlyMarkerEndedLinesRemoved ==
    Stripped =>
        \A name \in DOMAIN release :
            (PyOrNotebook(name) /\ name \notin scrubbed)
                => release[name] = WithoutLinesEndingWithMarker(dev[name])

\* What the script does give: the dev copy without every line that contains
\* the marker anywhere, the other lines kept in order.
MarkedLinesRemoved ==
    Stripped =>
        \A name \in DOMAIN release :
            (PyOrNotebook(name) /\ name \notin scrubbed)
                => release[name] = SelectSeq(dev[name],
                        LAMBDA line : \A i \in DOMAIN line : line[i] # Marker)

\* The run with the marker inside a line ends successfully.
MarkerInsideNeverReleased ==
    ~ /\ rpc = "done"
      /\ HwPy \in DOMAIN release
      /\ \E i \in DOMAIN dev[HwPy] : dev[HwPy][i] = MarkerInsideLine

\* The script writes nothing under <name>-dev.
DevUntouched == [][dev' = dev]_vars

====
